---- MODULE Spec2Model ----
(***************************************************************************)
(* Model of the schema-validated fetch helper (utils/zod-fetch.ts) and of  *)
(* the document metadata of the root layout.                               *)
(*                                                                         *)
(* A wrapper call is followed through its await points: the fetcher is     *)
(* invoked, fetch settles, the body reads settle, the schema parses.       *)
(* The network, the response body, console.error and the schema library    *)
(* are the environment: their outcomes are drawn from small sets.          *)
(***************************************************************************)
EXTENDS Naturals, Sequences, FiniteSets, TLC

VARIABLES
  wrappers,     \* the fetcher each created wrapper closed over, in creation order
  nCalls,       \* wrapper invocations started so far
  pc,           \* position of the wrapper invocation in flight
  cur,          \* its arguments: [w, schema, args]
  usedFetcher,  \* the fetcher function the invocation called
  fetcherArgs,  \* the arguments that fetcher function received
  fetchArgs,    \* the arguments fetch received
  fetchCalls,   \* how often fetch was invoked by this invocation
  response,     \* what fetch resolved to
  trace,        \* the steps of defaultFetcher's error branch, in order
  console,      \* what console.error has written during the invocation
  parsedWith,   \* which parse the wrapper applied
  result,       \* how the returned promise settled
  consumerMode, \* env.NEXT_PUBLIC_CONSUMER_MODE
  document      \* the <head> rendered for the last page

vars == << wrappers, nCalls, pc, cur, usedFetcher, fetcherArgs, fetchArgs,
           fetchCalls, response, trace, console, parsedWith, result,
           consumerMode, document >>

callVars == << usedFetcher, fetcherArgs, fetchArgs, fetchCalls, response,
               trace, console, parsedWith, result >>

layoutVars == << consumerMode, document >>

-----------------------------------------------------------------------------
(* Bounds *)

MaxWrappers == 2
MaxCalls == 2

-----------------------------------------------------------------------------
(* Values *)

\* The fetcher a wrapper can be created with: none, or the fetcher of the
\* second @example, (url) => fetch(url).then((res) => res.json()).
FetcherArgs == {"none", "customFetcher"}

\* Transport arguments (...args): a URL, optionally followed by an init.
Urls == {"https://example.com", "https://example.org"}
ArgLists == {<<u>> : u \in Urls} \cup {<<"https://example.com", "POST">>}

Statuses == {200, 201, 400, 404, 500}

\* Deserialized JSON bodies: an object with an optional field hello (absent, a
\* string, or a number) and an optional field the schema does not know.
HelloVals == {"absent", "str:world", "num:123"}
ExtraVals == {"absent", "str:x"}
Data == [hello : HelloVals, extra : ExtraVals]
NoData == [hello |-> "absent", extra |-> "absent"]

\* A response body: one that response.json() deserializes, one that only
\* response.text() can read, or one neither read succeeds on (a failed stream,
\* or a body that the failed json() read has already consumed).
Bodies == [kind : {"json"}, data : Data]
            \cup [kind : {"text", "unreadable"}, data : {NoData}]

Responses == [status : Statuses, body : Bodies]

NoResponse == [status |-> 0, body |-> [kind |-> "unreadable", data |-> NoData]]

\* Schemas for {hello: string}: with or without a passthrough() method, and
\* with the library's two policies for unknown keys under the plain parse.
Schemas == [passthrough : BOOLEAN, unknownKeys : {"strip", "strict"}]

NoCall == [w |-> 0, schema |-> [passthrough |-> FALSE, unknownKeys |-> "strip"],
           args |-> <<>>]

NoError == [name |-> "none", code |-> "none", message |-> ""]
Pending == [state |-> "pending", value |-> NoData, error |-> NoError]

Resolved(v) == [state |-> "resolved", value |-> v, error |-> NoError]
Rejected(e) == [state |-> "rejected", value |-> NoData, error |-> e]

-----------------------------------------------------------------------------
(* The environment's functions *)

\* response.ok
Ok(r) == r.status >= 200 /\ r.status <= 299

\* statusCodeToTRPCErrorCode, imported from './error'
statusCodeToTRPCErrorCode(s) ==
  IF s >= 400 /\ s <= 499 THEN
    CASE s = 400 -> "BAD_REQUEST"
      [] s = 404 -> "NOT_FOUND"
      [] OTHER   -> "CLIENT_ERROR"
  ELSE "INTERNAL_SERVER_ERROR"

\* What fetch rejects with, what response.json()/text() reject with, what
\* console.error could throw, and what the schema's parse throws.
NetworkError == [name |-> "TypeError", code |-> "none", message |-> "fetch failed"]
SyntaxError == [name |-> "SyntaxError", code |-> "none",
                message |-> "Unexpected token in JSON"]
ZodError == [name |-> "ZodError", code |-> "none", message |-> "invalid_type: hello"]

\* schema.parse(data): the required field must be a string; an unknown key is
\* stripped or rejected, by the schema's policy.
StrictParse(schema, data) ==
  IF data.hello # "str:world" THEN Rejected(ZodError)
  ELSE IF data.extra = "absent" THEN Resolved(data)
  ELSE IF schema.unknownKeys = "strict" THEN Rejected(ZodError)
  ELSE Resolved([data EXCEPT !.extra = "absent"])

\* schema.passthrough().parse(data): unknown keys are kept as they are.
PassthroughParse(schema, data) ==
  IF data.hello # "str:world" THEN Rejected(ZodError)
  ELSE Resolved(data)


-----------------------------------------------------------------------------
(* defaultFetcher *)

\* A TRPCError whose code and message ignore the status.
RequestFailedGeneric(status) ==
  [name |-> "TRPCError", code |-> "INTERNAL_SERVER_ERROR",
   message |-> "Request failed"]

\* new TRPCError({code: ..., message: `Request failed with status: ${status}`})
RequestFailed(status) ==
  [name |-> "TRPCError",
   code |-> statusCodeToTRPCErrorCode(status),
   message |-> "Request failed with status: " \o ToString(status)]

\* The body is read but never written to the console.
LoggedNothing(con, body, logOk) == con

\* console.error(body): the entry is written unless console.error itself throws.
Logged(con, body, logOk) == IF logOk THEN Append(con, body) ELSE con

\* Without the catch block, what the try block raised escapes.
AfterTryUncaught(r, raised) ==
  Rejected([name |-> "TypeError", code |-> "none",
            message |-> IF raised = "console" THEN "console.error failed"
                        ELSE "Body is unusable"])

\* The catch (error) {} around the read and the log, then the throw: whatever
\* the try block raised, the promise rejects with the TRPCError.
AfterTryFailed(r, raised) == Rejected(RequestFailed(r.status))

\* A read failure turned into an empty value.
AfterJsonSwallowed(r) == Resolved(NoData)

\* return response.json() on a success status, when the read rejects.
AfterJsonFailed(r) == Rejected(SyntaxError)

-----------------------------------------------------------------------------
(* createZodFetcher *)

\* The fetcher parameter with its default value.
Bind(f) == IF f = "none" THEN "defaultFetcher" ELSE f

\* One module-level fetcher shared by all wrappers: the last one bound.
LastBoundFetcher(w) == wrappers[Len(wrappers)]

\* The fetcher the closure of wrapper w refers to.
BoundFetcher(w) == wrappers[w]

\* fetcher(...args)
Forwarded(args) == args

\* The arguments fetch receives from each fetcher: defaultFetcher spreads all of
\* them, the example fetcher passes its url parameter.
FetchArgsOf(f, args) == IF f = "defaultFetcher" THEN args ELSE <<args[1]>>

\* The plain parse whatever the schema offers.
ParseModeStrict(schema) == "strict"

\* 'passthrough' in schema ? schema.passthrough().parse : schema.parse
ParseMode(schema) == IF schema.passthrough THEN "passthrough" ELSE "strict"

\* The response returned as it came once the schema accepted it.
FetchWithZodUnparsed(schema, data) ==
  IF StrictParse(schema, data).state = "rejected" THEN StrictParse(schema, data)
  ELSE Resolved(data)

\* A validation error caught and the unvalidated response returned.
FetchWithZodCaught(schema, data) ==
  IF schema.passthrough
    THEN (IF PassthroughParse(schema, data).state = "rejected"
            THEN Resolved(data) ELSE PassthroughParse(schema, data))
    ELSE (IF StrictParse(schema, data).state = "rejected"
            THEN Resolved(data) ELSE StrictParse(schema, data))

\* The value the wrapper returns for the awaited response.
FetchWithZodParse(schema, data) ==
  IF ParseMode(schema) = "passthrough" THEN PassthroughParse(schema, data)
  ELSE StrictParse(schema, data)

-----------------------------------------------------------------------------
(* Root layout *)

Pages == {"none", "Settings", "Home"}

titleSwapped == IF consumerMode THEN "AI Research Hub" ELSE "AI Assistant"

title == IF consumerMode THEN "AI Assistant" ELSE "AI Research Hub"

\* metadata.title: the template `%s | ${title}` as its pieces, and the default.
metadata == [template |-> <<"%s", " | ", title>>, default |-> title]

RECURSIVE Join(_)
Join(seq) == IF seq = <<>> THEN "" ELSE Head(seq) \o Join(Tail(seq))

\* The title of a page: the template with %s replaced by the page's title, or
\* the default when the page sets none.
ResolveTitle(meta, page) ==
  IF page = "none" THEN meta.default
  ELSE Join([i \in 1..Len(meta.template) |->
              IF meta.template[i] = "%s" THEN page ELSE meta.template[i]])

\* <meta name="description" content={`NEAR ${title}`} />
Description == "NEAR " \o title

NoDocument == [page |-> "unrendered", docTitle |-> "", description |-> ""]

-----------------------------------------------------------------------------
(* Initial state *)

Init ==
  /\ wrappers = <<>>
  /\ nCalls = 0
  /\ pc = "idle"
  /\ cur = NoCall
  /\ usedFetcher = "none"
  /\ fetcherArgs = <<>>
  /\ fetchArgs = <<>>
  /\ fetchCalls = 0
  /\ response = NoResponse
  /\ trace = <<>>
  /\ console = <<>>
  /\ parsedWith = "none"
  /\ result = Pending
  /\ consumerMode \in BOOLEAN
  /\ document = NoDocument

-----------------------------------------------------------------------------
(* Actions *)

\* createZodFetcher(fetcher = defaultFetcher)
createZodFetcher(f) ==
  /\ Len(wrappers) < MaxWrappers
  /\ wrappers' = Append(wrappers, Bind(f))
  /\ UNCHANGED << nCalls, pc, cur, callVars, layoutVars >>

\* fetchWithZod(schema, ...args) up to its await: the fetcher is called, and
\* either fetcher calls fetch before it suspends.
Call(w, schema, args) ==
  /\ pc = "idle"
  /\ nCalls < MaxCalls
  /\ w \in 1..Len(wrappers)
  /\ nCalls' = nCalls + 1
  /\ cur' = [w |-> w, schema |-> schema, args |-> args]
  /\ usedFetcher' = BoundFetcher(w)
  /\ fetcherArgs' = Forwarded(args)
  /\ fetchArgs' = FetchArgsOf(usedFetcher', fetcherArgs')
  /\ fetchCalls' = fetchCalls + 1
  /\ pc' = "awaitFetch"
  /\ UNCHANGED << wrappers, response, trace, console, parsedWith, result,
                  layoutVars >>

\* A rejected fetch is retried once before the rejection is passed on.
FetchRejectsRetry ==
  /\ pc = "awaitFetch"
  /\ IF fetchCalls < 2
       THEN fetchCalls' = fetchCalls + 1 /\ pc' = pc /\ result' = result
       ELSE fetchCalls' = fetchCalls /\ pc' = "done"
            /\ result' = Rejected(NetworkError)
  /\ UNCHANGED << wrappers, nCalls, cur, usedFetcher, fetcherArgs, fetchArgs,
                  response, trace, console, parsedWith, layoutVars >>

\* fetch rejects (the network fails): the rejection passes through the fetcher
\* and the wrapper.
FetchRejects ==
  /\ pc = "awaitFetch"
  /\ result' = Rejected(NetworkError)
  /\ pc' = "done"
  /\ UNCHANGED << wrappers, nCalls, cur, usedFetcher, fetcherArgs, fetchArgs,
                  fetchCalls, response, trace, console, parsedWith, layoutVars >>

\* fetch resolves to a response. defaultFetcher tests response.ok and starts
\* response.json() in either branch; the example fetcher starts res.json().
FetchResolves(r) ==
  /\ pc = "awaitFetch"
  /\ response' = r
  /\ IF usedFetcher = "defaultFetcher" /\ ~Ok(r)
       THEN pc' = "awaitErrorJson" /\ trace' = Append(trace, "json")
       ELSE pc' = "awaitJson" /\ trace' = trace
  /\ UNCHANGED << wrappers, nCalls, cur, usedFetcher, fetcherArgs, fetchArgs,
                  fetchCalls, console, parsedWith, result, layoutVars >>

\* response.json() of the error branch settles. Fulfilled: console.error(body)
\* and the throw. Rejected: .catch(() => response.text()) starts the text read.
ErrorJsonSettles(logOk) ==
  /\ pc = "awaitErrorJson"
  /\ IF response.body.kind = "json"
       THEN /\ console' = Logged(console, response.body, logOk)
            /\ trace' = trace \o << IF logOk THEN "log" ELSE "logThrew", "throw" >>
            /\ result' = IF logOk THEN Rejected(RequestFailed(response.status))
                         ELSE AfterTryFailed(response, "console")
            /\ pc' = "done"
       ELSE /\ trace' = Append(trace, "text")
            /\ pc' = "awaitErrorText"
            /\ UNCHANGED << console, result >>
  /\ UNCHANGED << wrappers, nCalls, cur, usedFetcher, fetcherArgs, fetchArgs,
                  fetchCalls, response, parsedWith, layoutVars >>

\* response.text() of the fallback settles. Fulfilled: console.error(body) and
\* the throw. Rejected: the catch block swallows it, then the throw.
ErrorTextSettles(logOk) ==
  /\ pc = "awaitErrorText"
  /\ IF response.body.kind = "text"
       THEN /\ console' = Logged(console, response.body, logOk)
            /\ trace' = trace \o << IF logOk THEN "log" ELSE "logThrew", "throw" >>
            /\ result' = IF logOk THEN Rejected(RequestFailed(response.status))
                         ELSE AfterTryFailed(response, "console")
       ELSE /\ console' = console
            /\ trace' = Append(trace, "throw")
            /\ result' = AfterTryFailed(response, "text")
  /\ pc' = "done"
  /\ UNCHANGED << wrappers, nCalls, cur, usedFetcher, fetcherArgs, fetchArgs,
                  fetchCalls, response, parsedWith, layoutVars >>

\* response.json() of the returned body settles. Fulfilled: the wrapper parses
\* the value with the schema and returns what parse returns or throws what it
\* throws. Rejected: the rejection passes through the wrapper.
JsonSettles ==
  /\ pc = "awaitJson"
  /\ IF response.body.kind = "json"
       THEN /\ parsedWith' = ParseMode(cur.schema)
            /\ result' = FetchWithZodParse(cur.schema, response.body.data)
       ELSE /\ parsedWith' = parsedWith
            /\ result' = AfterJsonFailed(response)
  /\ pc' = "done"
  /\ UNCHANGED << wrappers, nCalls, cur, usedFetcher, fetcherArgs, fetchArgs,
                  fetchCalls, response, trace, console, layoutVars >>

\* The caller has received the settled promise; the invocation's locals are gone.
Return ==
  /\ pc = "done"
  /\ pc' = "idle"
  /\ cur' = NoCall
  /\ usedFetcher' = "none"
  /\ fetcherArgs' = <<>>
  /\ fetchArgs' = <<>>
  /\ fetchCalls' = 0
  /\ response' = NoResponse
  /\ trace' = <<>>
  /\ console' = <<>>
  /\ parsedWith' = "none"
  /\ result' = Pending
  /\ UNCHANGED << wrappers, nCalls, layoutVars >>

\* A page is rendered under RootLayout with the page's own title, if any.
RenderPage(page) ==
  /\ document' = [page |-> page,
                  docTitle |-> ResolveTitle(metadata, page),
                  description |-> Description]
  /\ UNCHANGED << wrappers, nCalls, pc, cur, callVars, consumerMode >>

Next ==
  \/ \E f \in FetcherArgs : createZodFetcher(f)
  \/ \E w \in 1..MaxWrappers, schema \in Schemas, args \in ArgLists :
       Call(w, schema, args)
  \/ FetchRejects
  \/ \E r \in Responses : FetchResolves(r)
  \/ \E logOk \in BOOLEAN : ErrorJsonSettles(logOk)
  \/ \E logOk \in BOOLEAN : ErrorTextSettles(logOk)
  \/ JsonSettles
  \/ Return
  \/ \E page \in Pages : RenderPage(page)

Spec == Init /\ [][Next]_vars

-----------------------------------------------------------------------------
(* Properties *)

\* The invocation in flight has settled.
Done == pc = "done"

\* fetch resolved to a response (it did not reject).
Responded == response \in Responses

\* The deserialized body is one the supplied schema accepts, in the parse mode
\* the schema offers.
Satisfies(schema, data) ==
  IF schema.passthrough THEN PassthroughParse(schema, data).state = "resolved"
  ELSE StrictParse(schema, data).state = "resolved"

\* The value that parse produces for the body.
Produced(schema, data) ==
  IF schema.passthrough THEN PassthroughParse(schema, data).value
  ELSE StrictParse(schema, data).value

FailedWithRequestFailed ==
  result.state = "rejected" /\ result.error.name = "TRPCError"

Affixes == {"", "Request failed with status: "}
Contains(msg, sub) == \E pre \in Affixes, post \in Affixes : msg = pre \o sub \o post

Before(a, b) ==
  \E i \in 1..Len(trace), j \in 1..Len(trace) : i < j /\ trace[i] = a /\ trace[j] = b

Occurs(a) == \E i \in 1..Len(trace) : trace[i] = a

\* C1, as stated: whenever fetch returns a non-success status, the wrapper call
\* fails with the RequestFailed TRPCError, whatever the body and the logging do,
\* for a wrapper created with any fetcher.
C1_AnyFetcher_NonSuccessFailsRequestFailed ==
  (Done /\ Responded /\ ~Ok(response)) => FailedWithRequestFailed

\* C1, amended: for a wrapper created without a fetcher (defaultFetcher),
\* whenever fetch returns a non-success status the call fails with the
\* RequestFailed TRPCError, whether the body reads as JSON, only as text or not
\* at all, and whether or not console.error throws.
C1_DefaultFetcher_NonSuccessFailsRequestFailed ==
  (Done /\ Responded /\ ~Ok(response) /\ usedFetcher = "defaultFetcher")
    => /\ FailedWithRequestFailed
       /\ result = Rejected(RequestFailed(response.status))

C1_Witness ==
  /\ Done /\ usedFetcher = "defaultFetcher"
  /\ response.status = 500 /\ response.body.kind = "unreadable"
  /\ trace = <<"json", "text", "throw">>
  /\ FailedWithRequestFailed

\* C2: a success status with a body the schema accepts resolves to the value
\* that the schema's parse produced for the deserialized body; status 200 with
\* body {hello: "world"} resolves to {hello: "world"}.
C2_SuccessResolvesToParsedValue ==
  /\ (Done /\ Responded /\ Ok(response) /\ response.body.kind = "json"
        /\ Satisfies(cur.schema, response.body.data))
       => /\ result.state = "resolved"
          /\ result.value = Produced(cur.schema, response.body.data)
  /\ (Done /\ response.status = 200
        /\ response.body = [kind |-> "json",
                            data |-> [hello |-> "str:world", extra |-> "absent"]])
       => result = Resolved([hello |-> "str:world", extra |-> "absent"])

C2_Witness ==
  /\ Done /\ response.status = 200 /\ response.body.kind = "json"
  /\ response.body.data = [hello |-> "str:world", extra |-> "str:x"]
  /\ cur.schema = [passthrough |-> FALSE, unknownKeys |-> "strip"]
  /\ result = Resolved([hello |-> "str:world", extra |-> "absent"])

\* C3: a success status with a deserialized body the schema does not accept
\* fails with exactly the error the schema's parse raised, and carries no value.
C3_MismatchFailsWithSchemaError ==
  (Done /\ Responded /\ Ok(response) /\ response.body.kind = "json"
     /\ ~Satisfies(cur.schema, response.body.data))
    => /\ result.state = "rejected"
       /\ result.error = ZodError
       /\ result.value = NoData

C3_Witness ==
  /\ Done /\ response.status = 200 /\ response.body.kind = "json"
  /\ response.body.data.hello = "num:123"
  /\ result = Rejected(ZodError)

\* The failure paths of a call: fetch rejects, a non-success status, a success
\* body that does not deserialize, a deserialized body the schema rejects.
TransportFailed == Done /\ ~Responded
NonSuccess == Done /\ Responded /\ ~Ok(response)
Undeserializable == Done /\ Responded /\ Ok(response) /\ response.body.kind # "json"
Mismatch ==
  /\ Done /\ Responded /\ Ok(response) /\ response.body.kind = "json"
  /\ ~Satisfies(cur.schema, response.body.data)

\* C4, as stated: every failure path ends in a rejected result whose error has a
\* coarse-grained classification and a human-readable message.
C4_EveryFailureIsClassified ==
  (TransportFailed \/ NonSuccess \/ Undeserializable \/ Mismatch)
    => /\ result.state = "rejected"
       /\ result.error.code # "none"
       /\ result.error.message # ""

\* C4, amended: every failure raised during a call rejects the call with the
\* error that was raised, which has a message: the rejection of fetch, the
\* failed deserialization and the schema's error pass through unclassified, and
\* only the RequestFailed error that defaultFetcher raises for a non-success
\* status carries a classification; none becomes a resolved value.
C4_EveryRaisedFailureRejects ==
  /\ TransportFailed => result = Rejected(NetworkError)
  /\ (NonSuccess /\ usedFetcher = "defaultFetcher")
       => (FailedWithRequestFailed /\ result.error.code # "none")
  /\ Undeserializable => result = Rejected(SyntaxError)
  /\ (Done /\ Responded /\ usedFetcher = "customFetcher"
        /\ response.body.kind # "json") => result = Rejected(SyntaxError)
  /\ Mismatch => result = Rejected(ZodError)
  /\ (Done /\ result.state = "rejected")
       => /\ result.error.message # ""
          /\ (result.error.code # "none") <=> (result.error.name = "TRPCError")
  /\ (Done /\ result.state = "resolved") => parsedWith # "none"

C4_Witness ==
  /\ Undeserializable /\ response.body.kind = "text"
  /\ result = Rejected(SyntaxError)

\* C5: an invocation calls fetch exactly once, from its start until it has
\* settled, however it ends.
C5_ExactlyOneTransportCall ==
  /\ pc # "idle" => fetchCalls = 1
  /\ pc = "idle" => fetchCalls = 0

C5_Witness ==
  /\ Done /\ nCalls = 2 /\ fetchCalls = 1
  /\ result = Rejected(NetworkError)

\* C6: a RequestFailed error for status s has the classification
\* statusCodeToTRPCErrorCode(s) and a message containing s, whether or not a
\* body was obtained; status 404 gives a message containing "404".
C6_RequestFailedCarriesStatus ==
  (Done /\ FailedWithRequestFailed)
    => /\ Responded /\ ~Ok(response)
       /\ result.error.code = statusCodeToTRPCErrorCode(response.status)
       /\ Contains(result.error.message, ToString(response.status))
       /\ response.status = 404 => Contains(result.error.message, "404")

C6_Witness ==
  /\ Done /\ FailedWithRequestFailed
  /\ response.status = 404 /\ response.body.kind = "unreadable"
  /\ result.error.message = "Request failed with status: 404"

\* C7: a schema with a passthrough method is parsed with passthrough().parse
\* and never with the plain parse, so unknown extra fields are accepted and
\* returned as they are; a schema with only parse is parsed with it, and a
\* body whose required field is absent or mistyped is rejected.
C7_PassthroughWhenOffered ==
  (Done /\ parsedWith # "none")
    => /\ cur.schema.passthrough
            => /\ parsedWith = "passthrough"
               /\ response.body.data.hello = "str:world"
                    => result = Resolved(response.body.data)
       /\ ~cur.schema.passthrough
            => /\ parsedWith = "strict"
               /\ response.body.data.hello # "str:world"
                    => result = Rejected(ZodError)

C7_Witness ==
  /\ Done /\ parsedWith = "passthrough"
  /\ cur.schema = [passthrough |-> TRUE, unknownKeys |-> "strict"]
  /\ response.body.data = [hello |-> "str:world", extra |-> "str:x"]
  /\ result.state = "resolved" /\ result.value.extra = "str:x"

\* The console entry is the response body, written before the throw.
BodyLoggedBeforeThrow ==
  /\ Before("log", "throw")
  /\ console = << response.body >>

\* C8, as stated: whenever a call fails with a non-success status, a log entry
\* with the response body is written before RequestFailed is raised, the JSON
\* read comes first and the text read only after the JSON read failed.
C8_AlwaysLoggedBeforeRaise ==
  (Done /\ FailedWithRequestFailed)
    => /\ BodyLoggedBeforeThrow
       /\ trace[1] = "json"
       /\ Occurs("text") => response.body.kind # "json"

\* C8, amended: when a call fails with a non-success status, the JSON read is
\* attempted first and the text read only after the JSON read failed; a log
\* entry with the body is written before RequestFailed is raised exactly when
\* one of the two reads succeeded and console.error did not throw, and
\* otherwise the call writes nothing.
C8_LoggedBeforeRaiseWhenReadable ==
  (Done /\ FailedWithRequestFailed)
    => /\ trace[1] = "json"
       /\ trace[Len(trace)] = "throw"
       /\ Occurs("text") <=> response.body.kind # "json"
       /\ Occurs("text") => trace[2] = "text"
       /\ Occurs("log") <=> (response.body.kind \in {"json", "text"}
                              /\ ~Occurs("logThrew"))
       /\ Occurs("log") => BodyLoggedBeforeThrow
       /\ ~Occurs("log") => console = <<>>

C8_Witness ==
  /\ Done /\ FailedWithRequestFailed
  /\ response.body.kind = "text"
  /\ trace = <<"json", "text", "log", "throw">>
  /\ console = << response.body >>

\* C9: every call made through a wrapper calls the fetcher that wrapper was
\* created with, with the call's arguments as given, and no step changes the
\* fetcher of a wrapper already created.
C9_WrapperKeepsItsTransport ==
  /\ [](pc # "idle" => /\ usedFetcher = wrappers[cur.w]
                       /\ fetcherArgs = cur.args)
  /\ [][/\ Len(wrappers') >= Len(wrappers)
        /\ \A i \in 1..Len(wrappers) : wrappers'[i] = wrappers[i]
        /\ Len(wrappers') > Len(wrappers)
             => wrappers'[Len(wrappers')] \in {"defaultFetcher", "customFetcher"}]_vars

C9_Witness ==
  /\ Done /\ nCalls = 2 /\ cur.w = 1
  /\ wrappers = <<"defaultFetcher", "customFetcher">>
  /\ usedFetcher = "defaultFetcher"
  /\ fetcherArgs = <<"https://example.com", "POST">>

\* C10: the product name is "AI Assistant" with the consumer-mode flag set and
\* "AI Research Hub" without; a page without a title is titled with the product
\* name, a page titled P with "P | <product name>", and the description is
\* "NEAR <product name>".
C10_TitleFollowsConsumerMode ==
  document # NoDocument
    => /\ (consumerMode /\ document.page = "none")
            => document.docTitle = "AI Assistant"
       /\ (~consumerMode /\ document.page = "none")
            => document.docTitle = "AI Research Hub"
       /\ (consumerMode /\ document.page # "none")
            => document.docTitle = document.page \o " | AI Assistant"
       /\ (~consumerMode /\ document.page # "none")
            => document.docTitle = document.page \o " | AI Research Hub"
       /\ (~consumerMode /\ document.page = "Settings")
            => document.docTitle = "Settings | AI Research Hub"
       /\ document.description
            = (IF consumerMode THEN "NEAR AI Assistant" ELSE "NEAR AI Research Hub")

C10_Witness ==
  /\ ~consumerMode /\ document.page = "Settings"
  /\ document.docTitle = "Settings | AI Research Hub"
  /\ document.description = "NEAR AI Research Hub"

=============================================================================
